---- MODULE Spec2Model ----
(***************************************************************************)
(* Balote replay viewer: the snapshot reducer of frontend/js/state.js      *)
(* (buildInitialState, applyAction) driven by the actions of a recorded    *)
(* round.  The reducer accepts every action it is handed, so the model     *)
(* hands it both the actions the rules allow and actions they do not.      *)
(***************************************************************************)
EXTENDS Integers, Sequences, FiniteSets, Bags, TLC

\* the replayed round (state.js)
VARIABLES json, state, lastAction, outcome, turn, nIllegal, resolved

\* the playback controller (controls.js) and the step shown (main.js)
VARIABLES step, playing, timer, speed, active, currentStep, reads,
          requested, ctlEvent, quiet

\* snapshots as JavaScript objects: the heap, and what main.js update
\* computed and handed to render
VARIABLES heap, orig, nTampers, lastOp, viewStep, computed, rendered

coreVars == <<json, state, lastAction, outcome, turn, nIllegal, resolved>>

ctlVars == <<step, playing, timer, speed, active, currentStep, reads,
             requested, ctlEvent, quiet>>

viewVars == <<heap, orig, nTampers, lastOp, viewStep, computed, rendered>>

vars == <<coreVars, ctlVars, viewVars>>

(* ---------------------------------------------------------------------- *)
(* Bounds                                                                  *)
(* ---------------------------------------------------------------------- *)

\* how many actions outside the rules one replayed log may contain
MaxIllegal == 1

\* json.actions.length of the round the controller plays back
MaxStep == 3

\* interval ids the browser hands out before reusing a released one
MaxTimers == 3

\* snapshots kept alive at once by a caller of applyAction
MaxSnaps == 3

\* writes a caller makes to snapshots it was handed
MaxTampers == 1

(* ---------------------------------------------------------------------- *)
(* Values                                                                  *)
(* ---------------------------------------------------------------------- *)

NumPlayers == 4
Players == 0 .. (NumPlayers - 1)
TrickSize == 4

Suits == {"S", "H"}

\* JavaScript null, per field type
NoSuit == "null"
NoMode == "null"
NoPlayer == -1
NoCard == [r |-> 0, s |-> "null"]

Card(r, s) == [r |-> r, s |-> s]

\* two recorded deals (json.initial): every player holds both suits in the
\* first; in the second player 0 is void in hearts and player 1 in spades
Deal1 ==
    [start_phase |-> "BIDDING", dealer |-> 3, current_player |-> 0,
     floor_card |-> Card(5, "S"),
     hands_5 |-> (0 :> <<Card(1, "S"), Card(1, "H")>> @@
                  1 :> <<Card(2, "S"), Card(2, "H")>> @@
                  2 :> <<Card(4, "S"), Card(3, "H")>> @@
                  3 :> <<Card(3, "S"), Card(4, "H")>>)]

Deal2 ==
    [start_phase |-> "BIDDING", dealer |-> 0, current_player |-> 1,
     floor_card |-> Card(5, "H"),
     hands_5 |-> (0 :> <<Card(1, "S"), Card(2, "S")>> @@
                  1 :> <<Card(1, "H"), Card(2, "H")>> @@
                  2 :> <<Card(3, "S"), Card(3, "H")>> @@
                  3 :> <<Card(4, "S"), Card(4, "H")>>)]

Deals == {Deal1, Deal2}

\* the cards a recorded log may name: the dealt ones and the floor card
LogCards(j) ==
    {j.initial.floor_card} \cup
    UNION {{j.initial.hands_5[p][i] : i \in 1 .. Len(j.initial.hands_5[p])} : p \in Players}

(* ---------------------------------------------------------------------- *)
(* Actions of the log                                                      *)
(* ---------------------------------------------------------------------- *)

BidTypes == {"PASS", "BID_SUN"}

Action(type, player, card, mode, trump_suit, floor_taker) ==
    [type |-> type, player |-> player,
     payload |-> [card |-> card, mode |-> mode, trump_suit |-> trump_suit,
                  floor_taker |-> floor_taker]]

NoAction == Action("null", NoPlayer, NoCard, NoMode, NoSuit, NoPlayer)

BidAction(type, p) == Action(type, p, NoCard, NoMode, NoSuit, NoPlayer)

FinalizeAction(mode, trump_suit, floor_taker) ==
    Action("FINALIZE_CONTRACT", NoPlayer, NoCard, mode, trump_suit, floor_taker)

PlayAction(p, card) == Action("PLAY_CARD", p, card, NoMode, NoSuit, NoPlayer)

\* the contracts a log may finalize: no-trump, or hearts as trump
Contracts == {<<"SUN", NoSuit>>, <<"HOKM", "H">>}

\* the players a log may name as floor taker
FloorTakers == {0, 2}

(* ---------------------------------------------------------------------- *)
(* state.js                                                                *)
(* ---------------------------------------------------------------------- *)

buildInitialState(j) ==
    [phase |-> j.initial.start_phase,
     dealer |-> j.initial.dealer,
     currentPlayer |-> j.initial.current_player,
     floorCard |-> j.initial.floor_card,
     hands |-> [p \in DOMAIN j.initial.hands_5 |-> j.initial.hands_5[p]],
     trick |-> <<>>,
     trickComplete |-> FALSE,
     tricksWon |-> [p \in Players |-> 0],
     mode |-> NoMode,
     trump |-> NoSuit]

clearTrick_keep(s) ==
    IF s.trickComplete
    THEN [s EXCEPT !.trickComplete = FALSE]
    ELSE s

\* lines 27-30
clearTrick(s) ==
    IF s.trickComplete
    THEN [s EXCEPT !.trick = <<>>, !.trickComplete = FALSE]
    ELSE s

finalizeContract_noMode(s, action) ==
    IF action.type = "FINALIZE_CONTRACT"
    THEN [s EXCEPT !.phase = "PLAYING",
                   !.trump = action.payload.trump_suit,
                   !.currentPlayer = action.payload.floor_taker]
    ELSE s

finalizeContract_done(s, action) ==
    IF action.type = "FINALIZE_CONTRACT"
    THEN [s EXCEPT !.phase = "DONE",
                   !.mode = action.payload.mode,
                   !.trump = action.payload.trump_suit,
                   !.currentPlayer = action.payload.floor_taker]
    ELSE s

\* lines 32-37
finalizeContract(s, action) ==
    IF action.type = "FINALIZE_CONTRACT"
    THEN [s EXCEPT !.phase = "PLAYING",
                   !.mode = action.payload.mode,
                   !.trump = action.payload.trump_suit,
                   !.currentPlayer = action.payload.floor_taker]
    ELSE s

\* line 43: s.hands[p].filter(c => c !== card)
filterCard(hand, card) ==
    LET keep(c) == c # card IN SelectSeq(hand, keep)

nextSeat_stay(p) == p

\* line 51
nextSeat(p) == (p + 1) % NumPlayers

\* lines 39-53
playCard(s, action) ==
    IF action.type = "PLAY_CARD"
    THEN LET p == action.player
             card == action.payload.card
             s1 == [s EXCEPT !.hands[p] = filterCard(@, card),
                             !.trick = Append(@, [player |-> p, card |-> card])]
         IN  IF Len(s1.trick) = TrickSize
             THEN LET winner == p
                  IN  [s1 EXCEPT !.currentPlayer = winner,
                                 !.trickComplete = TRUE]
             ELSE [s1 EXCEPT !.currentPlayer = nextSeat(p)]
    ELSE s

applyAction(s, action) ==
    playCard(finalizeContract(clearTrick(s), action), action)

(* ---------------------------------------------------------------------- *)
(* The rules of the game, as the design describes them (the reducer has    *)
(* no rules engine of its own)                                             *)
(* ---------------------------------------------------------------------- *)

HandSet(s, p) == {s.hands[p][i] : i \in 1 .. Len(s.hands[p])}

\* the trick the next card lands in
OpenTrick(s) == IF s.trickComplete THEN <<>> ELSE s.trick

FollowsSuit(s, p, card) ==
    LET t == OpenTrick(s)
    IN  IF t = <<>> THEN TRUE
        ELSE IF card.s = t[1].card.s THEN TRUE
        ELSE \A c \in HandSet(s, p) : c.s # t[1].card.s

\* action a is legal in snapshot s when player t is the one to act
IsLegal(s, t, a) ==
    CASE a.type \in BidTypes -> s.phase = "BIDDING" /\ a.player = t
      [] a.type = "FINALIZE_CONTRACT" -> s.phase = "BIDDING"
      [] a.type = "PLAY_CARD" ->
            /\ s.phase = "PLAYING"
            /\ a.player = t
            /\ a.payload.card \in HandSet(s, t)
            /\ FollowsSuit(s, t, a.payload.card)
      [] OTHER -> FALSE

\* winner of a completed trick: highest trump if any, else highest of the led suit
resolveTrick(trick, trump) ==
    LET idx == 1 .. Len(trick)
        trumps == {i \in idx : trick[i].card.s = trump}
        led == {i \in idx : trick[i].card.s = trick[1].card.s}
        pool == IF trumps # {} THEN trumps ELSE led
        best == CHOOSE i \in pool : \A k \in pool : trick[k].card.r <= trick[i].card.r
    IN  trick[best].player

\* the player the rules expect to act after a legal action a
nextTurn(s, t, a) ==
    CASE a.type \in BidTypes -> (t + 1) % NumPlayers
      [] a.type = "FINALIZE_CONTRACT" -> a.payload.floor_taker
      [] a.type = "PLAY_CARD" ->
            LET t1 == Append(OpenTrick(s), [player |-> a.player, card |-> a.payload.card])
            IN  IF Len(t1) = TrickSize THEN resolveTrick(t1, s.trump)
                ELSE (t + 1) % NumPlayers
      [] OTHER -> t

(* ---------------------------------------------------------------------- *)
(* Replay: one step applies the next action of the log                     *)
(* ---------------------------------------------------------------------- *)

TrickBag(trick) ==
    LET cs == {trick[i].card : i \in 1 .. Len(trick)}
    IN  [c \in cs |-> Cardinality({i \in 1 .. Len(trick) : trick[i].card = c})]

\* main.js before the controls are set up
CtlIdle ==
    /\ step = 0
    /\ playing = FALSE
    /\ timer = 0
    /\ speed = 1
    /\ active = {}
    /\ currentStep = 0
    /\ reads = {}
    /\ requested = 0
    /\ ctlEvent = "none"
    /\ quiet = FALSE

\* no snapshot object has been handed out
ViewIdle ==
    /\ heap = [snaps |-> <<>>, hands |-> <<>>, cards |-> <<>>, tricks |-> <<>>]
    /\ orig = <<>>
    /\ nTampers = 0
    /\ lastOp = [op |-> "none", src |-> 0]
    /\ viewStep = -1
    /\ computed = buildInitialState(json)
    /\ rendered = buildInitialState(json)

Init ==
    /\ CtlIdle
    /\ json \in {[initial |-> d] : d \in Deals}
    /\ ViewIdle
    /\ state = buildInitialState(json)
    /\ lastAction = NoAction
    /\ outcome = "none"
    /\ turn = json.initial.current_player
    /\ nIllegal = 0
    /\ resolved = EmptyBag

Step(a) ==
    LET legal == IsLegal(state, turn, a)
    IN  /\ IF legal THEN TRUE ELSE nIllegal < MaxIllegal
        /\ state' = applyAction(state, a)
        /\ outcome' = "ok"
        /\ lastAction' = a
        /\ turn' = IF legal THEN nextTurn(state, turn, a) ELSE turn
        /\ nIllegal' = IF legal THEN nIllegal ELSE nIllegal + 1
        /\ resolved' = IF state.trickComplete
                       THEN resolved (+) TrickBag(state.trick)
                       ELSE resolved
        /\ UNCHANGED <<json, ctlVars, viewVars>>

Bid == \E type \in BidTypes, p \in Players : Step(BidAction(type, p))

FinalizeContract ==
    \E c \in Contracts, ft \in FloorTakers : Step(FinalizeAction(c[1], c[2], ft))

PlayCard == \E p \in Players, card \in LogCards(json) : Step(PlayAction(p, card))

Next == Bid \/ FinalizeContract \/ PlayCard

Spec == Init /\ [][Next]_vars

(* ---------------------------------------------------------------------- *)
(* controls.js: the playback controller, and what main.js update reads     *)
(* ---------------------------------------------------------------------- *)

NoTimer == 0
TimerIds == 1 .. MaxTimers
Speeds == {1, 2}

\* what the slider may report: its range and one value beyond each end
SliderValues == -1 .. (MaxStep + 1)

Max2(a, b) == IF a >= b THEN a ELSE b
Min2(a, b) == IF a <= b THEN a ELSE b

clampStep_noMax(s) == Max2(0, s)

\* controls.js line 11
clampStep(s) == Max2(0, Min2(MaxStep, s))

\* main.js lines 23-27: the indices of json.actions that update(s) reads:
\* computeStateAt(json, s), computeStateAt(json, s - 1), lastAction, nextAction
updateReads(s) ==
    {i \in 0 .. (s - 1) : TRUE}
        \cup (IF s > 0 THEN (0 .. (s - 2)) \cup {s - 1} ELSE {})
        \cup (IF s < MaxStep THEN {s} ELSE {})

\* controls.js lines 10-15 with onStepChange = update (main.js line 71)
setStep(s, ev) ==
    /\ requested' = s
    /\ step' = clampStep(s)
    /\ currentStep' = step'
    /\ reads' = updateReads(step')
    /\ ctlEvent' = ev

FreshTimer(t, act) == CHOOSE id \in TimerIds \ (act \cup {t}) :
                          \A other \in TimerIds \ (act \cup {t}) : id <= other

startTimer_noClear(t, act) ==
    [timer |-> FreshTimer(t, act), active |-> act \cup {FreshTimer(t, act)}]

\* controls.js lines 20-30: clearInterval(timer); timer = setInterval(...)
startTimer(t, act) ==
    [timer |-> FreshTimer(t, act), active |-> (act \ {t}) \cup {FreshTimer(t, act)}]

CanStartTimer == TimerIds \ (active \cup {timer}) # {}

tickStops_past(s) == s > MaxStep

\* controls.js line 23
tickStops(s) == s >= MaxStep

InitCtl ==
    /\ json \in {[initial |-> d] : d \in Deals}
    /\ ViewIdle
    /\ state = buildInitialState(json)
    /\ lastAction = NoAction
    /\ outcome = "none"
    /\ turn = json.initial.current_player
    /\ nIllegal = 0
    /\ resolved = EmptyBag
    \* main.js line 73: setStep(0)
    /\ step = 0
    /\ playing = FALSE
    /\ timer = NoTimer
    /\ speed = 1
    /\ active = {}
    /\ currentStep = 0
    /\ reads = updateReads(0)
    /\ requested = 0
    /\ ctlEvent = "init"
    /\ quiet = FALSE

\* controls.js line 17
PrevClick ==
    /\ ~quiet
    /\ setStep(step - 1, "prev")
    /\ UNCHANGED <<coreVars, viewVars, playing, timer, speed, active, quiet>>

\* controls.js line 18
NextClick ==
    /\ ~quiet
    /\ setStep(step + 1, "next")
    /\ UNCHANGED <<coreVars, viewVars, playing, timer, speed, active, quiet>>

\* controls.js line 42
SliderInput ==
    /\ ~quiet
    /\ \E v \in SliderValues : setStep(v, "slider")
    /\ UNCHANGED <<coreVars, viewVars, playing, timer, speed, active, quiet>>

\* renderer.js line 207, main.js line 69: row i selects step i + 1
RowClick ==
    /\ ~quiet
    /\ \E i \in 0 .. (MaxStep - 1) : setStep(i + 1, "row")
    /\ UNCHANGED <<coreVars, viewVars, playing, timer, speed, active, quiet>>

\* main.js lines 53-66: point of view or show-all changed, update(currentStep)
Redraw ==
    /\ ~quiet
    /\ reads' = updateReads(currentStep)
    /\ ctlEvent' = "redraw"
    /\ UNCHANGED <<coreVars, viewVars, step, currentStep, requested, playing, timer,
                   speed, active, quiet>>

\* controls.js lines 32-40
PlayClick ==
    /\ ~quiet
    /\ IF playing
       THEN /\ active' = active \ {timer}
            /\ playing' = FALSE
            /\ timer' = timer
       ELSE /\ CanStartTimer
            /\ playing' = TRUE
            /\ timer' = startTimer(timer, active).timer
            /\ active' = startTimer(timer, active).active
    /\ ctlEvent' = "play"
    /\ UNCHANGED <<coreVars, viewVars, step, currentStep, reads, requested, speed, quiet>>

\* controls.js lines 47-52
SpeedChange ==
    /\ ~quiet
    /\ \E v \in Speeds : speed' = v
    /\ IF playing
       THEN /\ CanStartTimer
            /\ timer' = startTimer(timer, active).timer
            /\ active' = startTimer(timer, active).active
       ELSE UNCHANGED <<timer, active>>
    /\ ctlEvent' = "speed"
    /\ UNCHANGED <<coreVars, viewVars, step, currentStep, reads, requested, playing, quiet>>

\* controls.js lines 22-29: the callback of an interval that is still set
Tick ==
    /\ active # {}
    /\ IF tickStops(step)
       THEN /\ active' = active \ {timer}
            /\ playing' = FALSE
            /\ ctlEvent' = "tick"
            /\ UNCHANGED <<step, currentStep, reads, requested>>
       ELSE /\ setStep(step + 1, "tick")
            /\ UNCHANGED <<active, playing>>
    /\ UNCHANGED <<coreVars, viewVars, timer, speed, quiet>>

\* the user walks away: no further clicks or inputs
UserLeaves ==
    /\ ~quiet
    /\ quiet' = TRUE
    /\ ctlEvent' = "leave"
    /\ UNCHANGED <<coreVars, viewVars, step, playing, timer, speed, active, currentStep,
                   reads, requested>>

NextCtl ==
    \/ PrevClick \/ NextClick \/ SliderInput \/ RowClick \/ Redraw
    \/ PlayClick \/ SpeedChange \/ Tick \/ UserLeaves

SpecCtl == InitCtl /\ [][NextCtl]_vars

\* the browser keeps firing an interval that is set
SpecAuto == InitCtl /\ [][NextCtl]_vars /\ WF_vars(Tick)

(* ---------------------------------------------------------------------- *)
(* Snapshots as objects.  A snapshot object holds references to its hands  *)
(* object and its trick array; the hands object holds references to the    *)
(* four hand arrays.  Cards, trick entries and tricksWon are kept by value.*)
(* Addresses are positions in the heap's sequences; allocation appends.    *)
(* ---------------------------------------------------------------------- *)

\* the recorded rounds main.js may load: a deal and its action log
Log1 ==
    <<BidAction("PASS", 0),
      FinalizeAction("SUN", NoSuit, 0),
      PlayAction(0, Card(1, "S")), PlayAction(1, Card(2, "S")),
      PlayAction(2, Card(4, "S")), PlayAction(3, Card(3, "S")),
      PlayAction(2, Card(3, "H"))>>

Log2 ==
    <<BidAction("BID_SUN", 1), BidAction("PASS", 2),
      FinalizeAction("HOKM", "H", 2),
      PlayAction(2, Card(3, "S")), PlayAction(3, Card(4, "S")),
      PlayAction(0, Card(1, "S")), PlayAction(1, Card(1, "H")),
      PlayAction(1, Card(2, "H"))>>

Rounds == {[initial |-> Deal1, actions |-> Log1],
           [initial |-> Deal2, actions |-> Log2]}

\* address of json.initial.bidding.hands_5 in heap.hands
JsonHands == 1

\* the loaded round: hands_5 and its four arrays are objects on the heap
loadRound(j) ==
    [snaps |-> <<>>,
     hands |-> <<[p \in Players |-> p + 1]>>,
     cards |-> [k \in 1 .. NumPlayers |-> j.initial.hands_5[k - 1]],
     tricks |-> <<>>]

spreadHands_alias(h, src) ==
    [cards |-> h.cards, refs |-> h.hands[src]]

\* state.js lines 4-6: hands[p] = [...hands_5[p]], a new array per player
spreadHands(h, src) ==
    [cards |-> h.cards \o [k \in 1 .. NumPlayers |-> h.cards[h.hands[src][k - 1]]],
     refs |-> [p \in Players |-> Len(h.cards) + p + 1]]

\* state.js lines 1-22 on the heap; the new snapshot is the last of snaps
buildInitialStateH(h, j) ==
    LET sp == spreadHands(h, JsonHands)
        newHands == Append(h.hands, sp.refs)
        newTricks == Append(h.tricks, <<>>)
        snap == [buildInitialState(j) EXCEPT !.hands = Len(newHands),
                                             !.trick = Len(newTricks)]
    IN  [snaps |-> Append(h.snaps, snap), hands |-> newHands,
         cards |-> sp.cards, tricks |-> newTricks]

structuredClone_shallow(h, i) ==
    [h EXCEPT !.snaps = Append(@, h.snaps[i])]

\* state.js line 25: a deep copy, every object of the snapshot allocated anew
structuredClone(h, i) ==
    LET s == h.snaps[i]
        sp == spreadHands(h, s.hands)
        newHands == Append(h.hands, sp.refs)
        newTricks == Append(h.tricks, h.tricks[s.trick])
        snap == [s EXCEPT !.hands = Len(newHands), !.trick = Len(newTricks)]
    IN  [snaps |-> Append(h.snaps, snap), hands |-> newHands,
         cards |-> sp.cards, tricks |-> newTricks]

\* state.js lines 27-30 on the object at address c
clearTrickH(h, c) ==
    IF h.snaps[c].trickComplete
    THEN [h EXCEPT !.tricks = Append(@, <<>>),
                   !.snaps[c].trick = Len(h.tricks) + 1,
                   !.snaps[c].trickComplete = FALSE]
    ELSE h

\* state.js lines 32-37 on the object at address c
finalizeContractH(h, c, action) ==
    IF action.type = "FINALIZE_CONTRACT"
    THEN [h EXCEPT !.snaps[c].phase = "PLAYING",
                   !.snaps[c].mode = action.payload.mode,
                   !.snaps[c].trump = action.payload.trump_suit,
                   !.snaps[c].currentPlayer = action.payload.floor_taker]
    ELSE h

\* state.js lines 39-53 on the object at address c: filter makes a new
\* array and stores it in the hands object, push changes the trick array
playCardH(h, c, action) ==
    IF action.type = "PLAY_CARD"
    THEN LET p == action.player
             card == action.payload.card
             s == h.snaps[c]
             h1 == [h EXCEPT
                      !.cards = Append(@, filterCard(h.cards[h.hands[s.hands][p]], card)),
                      !.hands[s.hands][p] = Len(h.cards) + 1,
                      !.tricks[s.trick] = Append(@, [player |-> p, card |-> card])]
         IN  IF Len(h1.tricks[s.trick]) = TrickSize
             THEN [h1 EXCEPT !.snaps[c].currentPlayer = p,
                             !.snaps[c].trickComplete = TRUE]
             ELSE [h1 EXCEPT !.snaps[c].currentPlayer = nextSeat(p)]
    ELSE h

\* state.js lines 24-56; the returned snapshot is the last of snaps
applyActionH(h, i, action) ==
    LET h0 == structuredClone(h, i)
        c == Len(h0.snaps)
    IN  playCardH(finalizeContractH(clearTrickH(h0, c), c, action), c, action)

\* the snapshot at address i, read field by field through its references
Deref(h, i) ==
    LET s == h.snaps[i]
    IN  [s EXCEPT !.hands = [p \in Players |-> h.cards[h.hands[s.hands][p]]],
                  !.trick = h.tricks[s.trick]]

\* json.initial.bidding.hands_5 as it reads now
JsonHandsNow(h) == [p \in Players |-> h.cards[h.hands[JsonHands][p]]]

RECURSIVE replayLoop(_, _, _, _)
\* state.js lines 61-63: for (let i = 0; i < step; i++); the test on state1
\* is always true and only makes each iteration's snapshot a value before
\* the next iteration starts
replayLoop(h, j, i, s) ==
    IF i < s
    THEN LET state1 == applyActionH(h, Len(h.snaps), j.actions[i + 1])
         IN  IF Len(state1.snaps) > 0 THEN replayLoop(state1, j, i + 1, s) ELSE h
    ELSE h

\* state.js lines 58-66; the returned snapshot is the last of snaps
computeStateAt(h, j, s) == replayLoop(buildInitialStateH(h, j), j, 0, s)

\* main.js lines 26-32: the player update writes into the computed snapshot
shownPlayer(j, s, current) ==
    LET lastA == IF s > 0 THEN j.actions[s] ELSE NoAction
        nextA == IF s < Len(j.actions) THEN j.actions[s + 1] ELSE NoAction
    IN  IF lastA.player # NoPlayer THEN lastA.player
        ELSE IF nextA.player # NoPlayer THEN nextA.player
        ELSE current

\* the objects that were on the heap h0 before a call, as the heap h has them
\* after it: what the call allocated is unreachable once update returns
Survivors(h0, h) ==
    [snaps |-> SubSeq(h.snaps, 1, Len(h0.snaps)),
     hands |-> SubSeq(h.hands, 1, Len(h0.hands)),
     cards |-> SubSeq(h.cards, 1, Len(h0.cards)),
     tricks |-> SubSeq(h.tricks, 1, Len(h0.tricks))]

\* main.js lines 21-34: update(s) up to the call of render
update(h, j, s) ==
    LET h1 == computeStateAt(h, j, s)
        st == Len(h1.snaps)
        h2 == IF s > 0 THEN computeStateAt(h1, j, s - 1) ELSE h1
        h3 == [h2 EXCEPT !.snaps[st].currentPlayer =
                            shownPlayer(j, s, h2.snaps[st].currentPlayer)]
    IN  [heap |-> Survivors(h, h3),
         computed |-> Deref(h1, st),
         rendered |-> Deref(h3, st)]

\* main.js lines 17-73: the round is loaded and update(0) has run; a caller
\* holds the initial snapshot
InitView ==
    /\ CtlIdle
    /\ json \in Rounds
    /\ state = buildInitialState(json)
    /\ lastAction = NoAction
    /\ outcome = "none"
    /\ turn = json.initial.current_player
    /\ nIllegal = 0
    /\ resolved = EmptyBag
    /\ heap = buildInitialStateH(update(loadRound(json), json, 0).heap, json)
    /\ orig = <<Deref(heap, 1)>>
    /\ nTampers = 0
    /\ lastOp = [op |-> "load", src |-> 0]
    /\ viewStep = 0
    /\ computed = update(loadRound(json), json, 0).computed
    /\ rendered = update(loadRound(json), json, 0).rendered

\* a caller applies an action of the log to a snapshot it holds
Derive ==
    /\ Len(heap.snaps) < MaxSnaps
    /\ \E i \in 1 .. Len(heap.snaps), k \in 1 .. Len(json.actions) :
          /\ heap' = applyActionH(heap, i, json.actions[k])
          /\ orig' = Append(orig, Deref(heap', Len(heap'.snaps)))
          /\ lastOp' = [op |-> "derive", src |-> i]
    /\ UNCHANGED <<coreVars, ctlVars, nTampers, viewStep, computed, rendered>>

\* the ways a caller may change a snapshot it was handed
TamperKinds == {"push-trick", "push-hand", "set-hand", "set-player"}

tamper(h, i, kind) ==
    LET s == h.snaps[i]
    IN  CASE kind = "push-trick" ->
                [h EXCEPT !.tricks[s.trick] =
                            Append(@, [player |-> 0, card |-> Card(5, "S")])]
          [] kind = "push-hand" ->
                [h EXCEPT !.cards[h.hands[s.hands][0]] = Append(@, Card(5, "S"))]
          [] kind = "set-hand" ->
                [h EXCEPT !.cards = Append(@, <<>>),
                          !.hands[s.hands][0] = Len(h.cards) + 1]
          [] kind = "set-player" ->
                [h EXCEPT !.snaps[i].currentPlayer = nextSeat(s.currentPlayer)]

\* a caller changes a snapshot it holds, in place
Tamper ==
    /\ nTampers < MaxTampers
    /\ \E i \in 1 .. Len(heap.snaps), kind \in TamperKinds :
          /\ heap' = tamper(heap, i, kind)
          /\ orig' = [orig EXCEPT ![i] = Deref(heap', i)]
          /\ lastOp' = [op |-> kind, src |-> i]
    /\ nTampers' = nTampers + 1
    /\ UNCHANGED <<coreVars, ctlVars, viewStep, computed, rendered>>

\* main.js: the controller hands a step to update
View ==
    /\ \E s \in 0 .. Len(json.actions) :
          \E u \in {update(heap, json, s)} :
              /\ viewStep' = s
              /\ heap' = u.heap
              /\ computed' = u.computed
              /\ rendered' = u.rendered
              /\ lastOp' = [op |-> "view", src |-> 0]
    /\ UNCHANGED <<coreVars, ctlVars, orig, nTampers>>

\* callers of applyAction branching from the snapshots they hold
NextHeap == Derive \/ Tamper

SpecHeap == InitView /\ [][NextHeap]_vars

\* main.js stepping through the round while the initial snapshot is held,
\* and possibly written to, elsewhere
NextView == Tamper \/ View

SpecView == InitView /\ [][NextView]_vars

(* ---------------------------------------------------------------------- *)
(* Vocabulary of the properties                                            *)
(* ---------------------------------------------------------------------- *)

SeqBag(seq) ==
    LET cs == {seq[i] : i \in 1 .. Len(seq)}
    IN  [c \in cs |-> Cardinality({i \in 1 .. Len(seq) : seq[i] = c})]

HandsBag(hands) ==
    SeqBag(hands[0]) (+) SeqBag(hands[1]) (+) SeqBag(hands[2]) (+) SeqBag(hands[3])

HandTotal(hands) == Len(hands[0]) + Len(hands[1]) + Len(hands[2]) + Len(hands[3])

AllHandsEmpty(s) == \A p \in Players : s.hands[p] = <<>>

HandsDisjoint(s) ==
    \A p, q \in Players : p # q => HandSet(s, p) \cap HandSet(s, q) = {}

\* the log replayed so far holds only actions the rules allow
LegalLog == nIllegal = 0

(* ---------------------------------------------------------------------- *)
(* Properties                                                              *)
(* ---------------------------------------------------------------------- *)

\* C1: after the 4th card of a trick, currentPlayer is the trick's resolved
\* winner (highest trump if a trump was played, else highest card of the led
\* suit); stated here already for logs the rules allow.
C1_WinnerLeads ==
    (LegalLog /\ lastAction.type = "PLAY_CARD" /\ Len(state.trick) = TrickSize)
        => state.currentPlayer = resolveTrick(state.trick, state.trump)

\* C2: the play of the 4th card sets trickComplete and raises tricksWon of the
\* trick's winner by exactly one, leaving the other counts alone.
C2_TrickCounted ==
    [][(LegalLog' /\ lastAction'.type = "PLAY_CARD" /\ Len(state'.trick) = TrickSize)
        => /\ state'.trickComplete
           /\ state'.tricksWon =
                [state.tricksWon EXCEPT
                    ![resolveTrick(state'.trick, state'.trump)] = @ + 1]]_vars

\* C3: an action that is not legal for the snapshot it is applied to ends in
\* an error and yields no successor: the snapshot stays as it was.
C3_IllegalRejected ==
    [][(~IsLegal(state, state.currentPlayer, lastAction'))
        => (outcome' = "error" /\ state' = state)]_vars

\* C4: conservation: hands, current trick and the cards of completed tricks
\* together are exactly the dealt cards, each once.
C4_Conservation ==
    HandsBag(state.hands) (+) TrickBag(state.trick) (+) resolved
        = HandsBag(json.initial.hands_5)

\* C5: FINALIZE_CONTRACT sets mode, trump, phase and currentPlayer from the
\* payload and clears floorCard, which stays absent from then on.
C5_FinalizeClearsFloor ==
    /\ (LegalLog /\ lastAction.type = "FINALIZE_CONTRACT")
          => /\ state.mode = lastAction.payload.mode
             /\ state.trump = lastAction.payload.trump_suit
             /\ state.phase = "PLAYING"
             /\ state.currentPlayer = lastAction.payload.floor_taker
             /\ state.floorCard = NoCard
    /\ (LegalLog /\ state.phase # "BIDDING") => state.floorCard = NoCard

\* C6: after FINALIZE_CONTRACT the floor taker's hand holds the floor card.
C6_FloorCardTaken ==
    (LegalLog /\ lastAction.type = "FINALIZE_CONTRACT")
        => json.initial.floor_card \in HandSet(state, lastAction.payload.floor_taker)

\* C7: an action that leaves all four hands empty moves phase to DONE.
C7_DoneWhenEmpty ==
    (LegalLog /\ lastAction # NoAction /\ AllHandsEmpty(state))
        => state.phase = "DONE"

\* C8: on a legal log, the snapshot before each action that carries a player
\* names that player as currentPlayer, bidding actions included.
C8_CurrentPlayerIsNext ==
    [][(LegalLog' /\ lastAction'.player # NoPlayer)
        => state.currentPlayer = lastAction'.player]_vars

\* C9: hands stay pairwise disjoint, and every PLAY_CARD the reducer accepts
\* takes exactly the played card out of the acting player's hand: the hands
\* hold one card fewer in total and the other hands are unchanged.
C9_PlayShrinksByOne ==
    [][(lastAction'.type = "PLAY_CARD")
        => /\ HandsDisjoint(state')
           /\ HandTotal(state'.hands) = HandTotal(state.hands) - 1
           /\ lastAction'.payload.card \in HandSet(state, lastAction'.player)
           /\ \A q \in Players \ {lastAction'.player} :
                 state'.hands[q] = state.hands[q]]_vars

\* C10: after a PLAY_CARD by p that leaves fewer than 4 cards in the trick,
\* currentPlayer is (p+1) mod 4 and trickComplete is false.
C10_NextSeat ==
    (lastAction.type = "PLAY_CARD" /\ Len(state.trick) < TrickSize)
        => /\ state.currentPlayer = (lastAction.player + 1) % 4
           /\ ~state.trickComplete

\* player 3 played the second card of a trick and the turn wrapped to player 0
C10_Witness ==
    /\ lastAction.type = "PLAY_CARD"
    /\ lastAction.player = 3
    /\ Len(state.trick) = 2
    /\ state.currentPlayer = 0

\* C11: the trick never holds more than 4 cards, and trickComplete is true
\* exactly when it holds 4.
C11_TrickLength ==
    /\ Len(state.trick) \in 0 .. TrickSize
    /\ state.trickComplete <=> (Len(state.trick) = TrickSize)

\* a trick has just been completed by its 4th card
C11_Witness ==
    /\ lastAction.type = "PLAY_CARD"
    /\ Len(state.trick) = TrickSize
    /\ state.trickComplete

TrickCards(s) == {s.trick[i].card : i \in 1 .. Len(s.trick)}

\* C12: an action applied to a snapshot with trickComplete set clears the
\* completed trick first: after a PLAY_CARD the trick holds exactly the new
\* card, and the four cards of the completed trick are neither in the trick
\* nor in any hand.
C12_ClearedBeforeAction ==
    [][(state.trickComplete /\ lastAction'.type = "PLAY_CARD")
        => /\ state'.trick = <<[player |-> lastAction'.player,
                                card |-> lastAction'.payload.card]>>
           /\ \A c \in TrickCards(state) :
                 /\ c \notin TrickCards(state')
                 /\ \A p \in Players : c \notin HandSet(state', p)]_vars

PhaseRank(phase) ==
    CASE phase = "BIDDING" -> 0
      [] phase = "PLAYING" -> 1
      [] phase = "DONE" -> 2

\* C15: no action moves phase backwards along BIDDING -> PLAYING -> DONE, and
\* a snapshot is in phase DONE only with every hand empty.
C15_PhaseForward ==
    [][/\ PhaseRank(state'.phase) >= PhaseRank(state.phase)
       /\ state'.phase = "DONE" => AllHandsEmpty(state')]_vars

\* a FINALIZE_CONTRACT applied after the hands were played out left the
\* phase at PLAYING
C15_Witness ==
    /\ state.phase = "PLAYING"
    /\ lastAction.type = "FINALIZE_CONTRACT"
    /\ AllHandsEmpty(state)

\* C16: mode and trump are null while phase is BIDDING, and mode is set
\* whenever phase is PLAYING.
C16_ModeFollowsPhase ==
    /\ state.phase = "BIDDING" => (state.mode = NoMode /\ state.trump = NoSuit)
    /\ state.phase = "PLAYING" => state.mode # NoMode

\* a trump contract was finalized
C16_Witness ==
    /\ state.phase = "PLAYING"
    /\ state.mode = "HOKM"
    /\ state.trump = "H"

\* C18: whatever the order of prev and next clicks, slider inputs, timeline
\* row clicks and timer ticks, the controller's step and every step handed to
\* onStepChange lie in [0, maxStep], and update reads json.actions only at
\* indices below its length.
C18_StepInRange ==
    /\ step \in 0 .. MaxStep
    /\ currentStep \in 0 .. MaxStep
    /\ reads \subseteq 0 .. (MaxStep - 1)

\* next was clicked on the last step and the request was clamped
C18_Witness ==
    /\ ctlEvent = "next"
    /\ requested = MaxStep + 1
    /\ step = MaxStep
    /\ currentStep = MaxStep

\* C19: after every handler an interval is set exactly when playing is true,
\* and never more than one interval is set.
C19_OneTimerIffPlaying ==
    /\ (active # {}) <=> playing
    /\ Cardinality(active) <= 1

\* the speed was changed during playback and the interval was replaced
C19_Witness ==
    /\ ctlEvent = "speed"
    /\ playing
    /\ active = {timer}
    /\ timer # 1

\* a step taken by the interval callback
TickStep == ctlEvent' = "tick"

\* C20: with the user gone and the interval firing, playback stops: each
\* tick below maxStep advances step by exactly one, the tick at maxStep clears
\* the interval and resets playing, step never exceeds maxStep, and once
\* stopped no interval is left to call onStepChange.
C20_AutoPlayStops ==
    /\ (quiet /\ playing) ~> (~playing)
    /\ [][TickStep =>
            \/ step < MaxStep /\ step' = step + 1 /\ currentStep' = step' /\ playing'
            \/ step = MaxStep /\ step' = step /\ ~playing' /\ active' = {}]_vars
    /\ [](step <= MaxStep)
    /\ [](~playing => active = {})

\* playback ran to the last step unattended and the following tick stopped it
C20_Witness ==
    /\ quiet
    /\ ctlEvent = "tick"
    /\ step = MaxStep
    /\ ~playing
    /\ active = {}

\* C13: applyAction leaves its input as it was: every snapshot handed out
\* reads, field by field, as when it was created or last changed by its own
\* holder, whatever was later derived from it or done to its successors; and
\* the recorded deal reads as loaded, so no snapshot shares an array with it.
C13_InputUntouched ==
    /\ \A i \in 1 .. Len(heap.snaps) : Deref(heap, i) = orig[i]
    /\ lastOp.op # "none" => JsonHandsNow(heap) = json.initial.hands_5

\* a successor's trick array was pushed to by its holder while its
\* predecessor is still held
C13_Witness ==
    /\ lastOp = [op |-> "push-trick", src |-> 2]
    /\ Len(heap.snaps) >= 2

RECURSIVE Fold(_, _)
\* applyAction folded over the first k actions of the log, on values
Fold(j, k) ==
    IF k = 0 THEN buildInitialState(j)
    ELSE applyAction(Fold(j, k - 1), j.actions[k])

\* C14: whatever was computed, derived or changed before, computeStateAt for
\* step k returns the fold of applyAction over the first k actions from the
\* initial snapshot: the same snapshot for the same (json, k) at every call.
C14_ReplayIsFold ==
    viewStep >= 0 => computed = Fold(json, viewStep)

\* a step past a completed trick was computed after a caller had written
\* into the initial snapshot
C14_Witness ==
    /\ lastOp.op = "view"
    /\ nTampers > 0
    /\ viewStep = Len(json.actions)
    /\ Len(computed.trick) = 1

\* C17: update hands render the snapshot computeStateAt returned, unwritten.
C17_RenderedAsComputed ==
    viewStep >= 0 => rendered = computed

====
